---- MODULE Spec2Model ----
(***************************************************************************)
(* Loop-point detection and track extension of ost-extender-musicbee.      *)
(*                                                                         *)
(* Four entry points are modelled, one per source file:                    *)
(*   "python"   src/python/looper.py            __main__ + find_loop_points *)
(*   "plugin"   src/plugin/looper.py            __main__ + find_loop_points *)
(*   "script"   src/py script/python_script.py  __main__ + find_loop_points *)
(*                                              + extend_track              *)
(*   "analysis" src/analysis/looper.py          find_loop_points_from_data  *)
(*                                                                         *)
(* Times are kept exact: a time t seconds is the integer t * sr, i.e. it   *)
(* is measured in analysis samples (1/sr s).  The feature extractor        *)
(* (chroma_cqt, recurrence_matrix, beat_track, load) is external: what it  *)
(* returns is a nondeterministic choice within its output contract, and it *)
(* may raise.                                                              *)
(***************************************************************************)
EXTENDS Integers, Sequences, FiniteSets, TLC

\* ------------------------------------------------------------------ bounds
\* Samples per analysis frame.  librosa's default hop is 512 samples; the
\* model analyses at a resolution of ten seconds per frame so that a
\* 20-second track has three frames.  A min_duration below one frame gives
\* min_loop_frames = 0, which masks what min_loop_frames = 1 masks: the main
\* diagonal.
hop_length == 220500
\* Largest matrix / largest frame index of the function-level specifications.
MaxFrames == 3
\* Longest beat grid of the function-level specification of beat sync.
MaxBeats == 2
\* Longest sample buffer of the function-level specification of extend_track.
MaxLen == 3
\* Largest target duration (seconds) of that specification.
MaxTarget == 4
\* Cap on the iterations of extend_track's while loop that the model follows.
MaxIters == 8

\* ------------------------------------------------------- program constants
sr == 22050                  \* librosa.load(..., sr=22050)
MinTrackSeconds == 20        \* if total_duration < 20
MinLoopSecondsPython == 15   \* max(15.0, total_duration * 0.15)
MinLoopSecondsAnalysis == 10 \* if min_duration < 10: min_duration = 10
LoopPercent == 15            \* total_duration * 0.15
LoadCapSeconds == 300        \* librosa.load(..., duration=300)

Min(a, b) == IF a <= b THEN a ELSE b
Max(a, b) == IF a >= b THEN a ELSE b
Abs(a) == IF a >= 0 THEN a ELSE 0 - a

\* ------------------------------------------------------------ conversions
\* Quotients are taken in two parts, whole and remainder, so that no
\* intermediate product leaves the 32-bit integers of the model checker.
\* librosa.time_to_samples(t, sr=rate): int(t * rate), t held as t * sr.
time_to_samples(t, rate) == (t \div sr) * rate + ((t % sr) * rate) \div sr

\* librosa.time_to_frames(t, sr=sr): floor(time_to_samples(t) / hop_length).
time_to_frames(t) == time_to_samples(t, sr) \div hop_length

\* librosa.frames_to_time(f, sr=sr): f * hop_length / sr seconds.
frames_to_time(f) == f * hop_length

\* librosa.get_duration(y=y, sr=rate): len(y) / rate seconds.
get_duration(len, rate) ==
    (len \div rate) * sr + ((len % rate) * sr) \div rate

\* --------------------------------------------------------------- matrices
\* An N x N matrix is a function on (0..N-1) x (0..N-1).
Cells(N) == (0 .. N - 1) \X (0 .. N - 1)
EmptyMatrix == [c \in {} |-> 0]

\* DiagonalCells with a slice on the columns left unfilled.
DiagonalCellsRowsOnly(N, r0, c0) ==
    IF c0 = 0 THEN { <<r0 + k, k>> : k \in 0 .. N - r0 - 1 }
    ELSE {}

\* The cells of a that np.fill_diagonal(view, val) writes, view being the
\* slice a[r0:, c0:] of the N x N matrix a.  numpy writes
\* view.flat[:end:step] with step = cols + 1 and end = cols * cols.
DiagonalCells(N, r0, c0) ==
    LET rows == Max(N - r0, 0)
        cols == Max(N - c0, 0)
        step == cols + 1
        end  == Min(cols * cols, rows * cols)
    IN  { <<r0 + (p \div cols), c0 + (p % cols)>> :
            p \in { q \in 0 .. end - 1 : q % step = 0 } }

\* np.fill_diagonal(a[r0:, c0:], val)
fill_diagonal(a, N, r0, c0, val) ==
    LET hit == DiagonalCells(N, r0, c0)
    IN  [c \in DOMAIN a |-> IF c \in hit THEN val ELSE a[c]]

\* for i in range(min_loop_frames): fill both sliced diagonals, from i on.
RECURSIVE MaskBand(_, _, _, _)
MaskBand(a, N, i, frames) ==
    IF i >= frames THEN a
    ELSE MaskBand(fill_diagonal(fill_diagonal(a, N, i, 0, 0), N, 0, i, 0),
                  N, i + 1, frames)

\* The masking step: main diagonal, then the band.
MaskMatrix(a, N, frames) ==
    MaskBand(fill_diagonal(a, N, 0, 0, 0), N, 0, frames)

\* np.argmax(a): the first flat (row-major) index holding the maximum.
ArgMax(a, N) ==
    LET val(p) == a[<<p \div N, p % N>>]
    IN  CHOOSE p \in 0 .. N * N - 1 :
            /\ \A q \in 0 .. N * N - 1 : val(q) <= val(p)
            /\ \A q \in 0 .. p - 1 : val(q) < val(p)

\* np.unravel_index(p, a.shape): (row, column).
UnravelIndex(p, N) == <<p \div N, p % N>>

\* The largest value of a matrix.
MatrixMax(a, N) == a[UnravelIndex(ArgMax(a, N), N)]

\* ------------------------------------------------------------- beat sync
\* ArgMinDistance with ties broken toward the last index.
ArgMinDistanceLast(grid, f) ==
    CHOOSE k \in 1 .. Len(grid) :
        /\ \A j \in 1 .. Len(grid) : Abs(grid[k] - f) <= Abs(grid[j] - f)
        /\ \A j \in k + 1 .. Len(grid) : Abs(grid[j] - f) > Abs(grid[k] - f)

\* ArgMinDistance with np.argmax in place of np.argmin.
ArgMaxDistance(grid, f) ==
    CHOOSE k \in 1 .. Len(grid) :
        /\ \A j \in 1 .. Len(grid) : Abs(grid[k] - f) >= Abs(grid[j] - f)
        /\ \A j \in 1 .. k - 1 : Abs(grid[j] - f) < Abs(grid[k] - f)

\* np.argmin(np.abs(grid - f)): the first index of least distance (1-based
\* here).  Defined on a non-empty grid only: numpy raises ValueError on an
\* empty one.
ArgMinDistance(grid, f) ==
    CHOOSE k \in 1 .. Len(grid) :
        /\ \A j \in 1 .. Len(grid) : Abs(grid[k] - f) <= Abs(grid[j] - f)
        /\ \A j \in 1 .. k - 1 : Abs(grid[j] - f) > Abs(grid[k] - f)

\* grid[np.argmin(np.abs(grid - f))]
Snap(grid, f) == grid[ArgMinDistance(grid, f)]

\* ------------------------------------------------------------ extension
\* y[:stop] for stop >= 0.
SliceTo(y, stop) == SubSeq(y, 1, Min(stop, Len(y)))

\* y[start:stop] for start, stop >= 0.
Slice(y, start, stop) == SubSeq(y, start + 1, Min(stop, Len(y)))

\* ------------------------------------------------------------- values
\* What a find_loop_points variant returns and what a print writes.  One
\* record shape serves the dict {"loop_start", "loop_end"}, the dict with a
\* "status", and the strings f"{start}:{end}" and f"{prefix}{text}".
NoValue == [kind |-> "none", status |-> "", prefix |-> "", text |-> "",
            loop_start |-> -1, loop_end |-> -1]
PointsDict(s, e) == [NoValue EXCEPT !.kind = "dict",
                                     !.loop_start = s, !.loop_end = e]
StatusDict(st, msg, s, e) == [NoValue EXCEPT !.kind = "dict", !.status = st,
                                !.text = msg, !.loop_start = s, !.loop_end = e]
\* f"{loop_start}:{loop_end}"
PointsLine(s, e) == [NoValue EXCEPT !.kind = "str",
                                     !.loop_start = s, !.loop_end = e]
\* f"{prefix}{text}"
TextLine(prefix, msg) == [NoValue EXCEPT !.kind = "str",
                                          !.prefix = prefix, !.text = msg]

\* ------------------------------------------------------------------ state
VARIABLES
    variant,        \* which entry point runs
    pc,             \* position of the run
    args_ok,        \* the command line has the arguments the entry point wants
    file_exists,    \* os.path.exists(file_path)
    file,           \* the track on disk: [sr |-> native rate, y |-> samples]
    target,         \* args.duration of the script, seconds
    n,              \* len(y) of the analysis buffer, -1 before it is loaded
    min_duration,   \* min_duration handed to find_loop_points, as t * sr
    n_frames,       \* number of chroma frames
    affinity,       \* the matrix as recurrence_matrix returned it
    similarity_matrix,
    min_loop_frames,
    frame1, frame2, \* the ordered candidate (loop_start_frame, loop_end_frame)
    beat_frames,
    loop_start_frame_synced,
    loop_end_frame_synced,
    loop_points,    \* what the find_loop_points variant returned
    stdout, stderr, \* lines printed so far
    status,         \* exit status of the process, -1 while there is none
    loop_start_samples,
    loop_end_samples,
    extended_audio,
    iters,          \* iterations of extend_track's while loop taken so far
    steps           \* the analysis steps executed so far

inputs == <<variant, args_ok, file_exists, file, target>>
locals == <<n, min_duration, n_frames, affinity, similarity_matrix,
            min_loop_frames, frame1, frame2, beat_frames,
            loop_start_frame_synced, loop_end_frame_synced>>
outputs == <<loop_points, stdout, stderr, status>>
extension == <<loop_start_samples, loop_end_samples, extended_audio, iters>>
vars == <<inputs, pc, locals, outputs, extension, steps>>

Variants == {"python", "plugin", "script", "analysis"}
NoStatus == -1

\* Affinity scores the external recurrence_matrix may return.
Affinities == {0, 1}
\* Track lengths in seconds of the end-to-end runs.
Durations == {5, 10, 20, 25}
\* args.duration values of the end-to-end runs, seconds.
Targets == {0, 15, 30, 45}

\* A track of d seconds stored at one sample per second, every sample
\* distinct.
Ramp(d) == [sr |-> 1, y |-> [p \in 1 .. d |-> p]]

\* Length of the buffer librosa.load(path, sr=sr) returns for a file stored
\* at another rate: ceil(len * sr / native rate).
ResampledLen(f) == (Len(f.y) * sr + f.sr - 1) \div f.sr

\* Strictly increasing sequences of frames below N: what beat_track returns.
RECURSIVE SortedSeq(_)
SortedSeq(S) ==
    IF S = {} THEN <<>>
    ELSE LET m == CHOOSE x \in S : \A z \in S : x <= z
         IN  <<m>> \o SortedSeq(S \ {m})
BeatGrids(N) == { SortedSeq(S) : S \in SUBSET (0 .. N - 1) }

\* All sequences over S of length at most k.
SeqsUpTo(S, k) == UNION { [1 .. m -> S] : m \in 0 .. k }

\* ------------------------------------------------------------ run endings
\* The process ends: what it has printed and its exit status.
Exit(out, err, st) ==
    /\ stdout' = out
    /\ stderr' = err
    /\ status' = st
    /\ pc' = "done"

\* An exception reaches the handler around the body of __main__.
\*   python: print(f"Error: {e}", file=sys.stderr); sys.exit(1)
\*   plugin: print(f"Error: {str(e)}"); sys.exit(1)
\*   script: print(f"An error occurred: {e}"), and the script ends normally
MainFail(msg) ==
    /\ variant \in {"python", "plugin", "script"}
    /\ loop_points' = loop_points
    /\ CASE variant = "python" ->
              Exit(stdout, Append(stderr, TextLine("Error: ", msg)), 1)
         [] variant = "plugin" ->
              Exit(Append(stdout, TextLine("Error: ", msg)), stderr, 1)
         [] variant = "script" ->
              Exit(Append(stdout, TextLine("An error occurred: ", msg)),
                   stderr, 0)

\* An exception is raised inside the find_loop_points variant.
\*   python, script: it propagates to the handler of __main__
\*   plugin: find_loop_points returns f"Error: {str(e)}", which __main__
\*           prints before it ends normally
\*   analysis: the function returns {"status": "failed", "error": str(e)}
FindFail(msg) ==
    CASE variant \in {"python", "script"} -> MainFail(msg)
      [] variant = "plugin" ->
           /\ loop_points' = TextLine("Error: ", msg)
           /\ Exit(Append(stdout, TextLine("Error: ", msg)), stderr, 0)
      [] variant = "analysis" ->
           /\ loop_points' = StatusDict("failed", msg, -1, -1)
           /\ Exit(stdout, stderr, NoStatus)

\* ------------------------------------------------------------------ Init
\* Everything a run has not computed yet.
Blank ==
    /\ pc = "start"
    /\ n = -1
    /\ min_duration = -1
    /\ n_frames = -1
    /\ affinity = EmptyMatrix
    /\ similarity_matrix = EmptyMatrix
    /\ min_loop_frames = -1
    /\ frame1 = -1
    /\ frame2 = -1
    /\ beat_frames = <<>>
    /\ loop_start_frame_synced = -1
    /\ loop_end_frame_synced = -1
    /\ loop_points = NoValue
    /\ stdout = <<>>
    /\ stderr = <<>>
    /\ status = NoStatus
    /\ loop_start_samples = -1
    /\ loop_end_samples = -1
    /\ extended_audio = <<>>
    /\ iters = 0
    /\ steps = {}

\* One run of one entry point on one track.  find_loop_points_from_data is a
\* function: it has no command line and is handed the samples.
Init ==
    /\ variant \in Variants
    /\ args_ok \in (IF variant = "analysis" THEN {TRUE} ELSE BOOLEAN)
    /\ file_exists \in (IF variant = "analysis" THEN {TRUE} ELSE BOOLEAN)
    /\ file \in { Ramp(d) : d \in Durations }
    /\ target \in (IF variant = "script" THEN Targets ELSE {0})
    /\ Blank

\* --------------------------------------------------------------- __main__
\* Argument handling, up to the try block.
\*   python, script: argparse ends the process with status 2 and a usage
\*                   message on stderr when an argument is missing
\*   plugin: len(sys.argv) != 2 and os.path.exists, both reported on stdout
\*   analysis: y = np.array(audio_data); min_duration from the duration
Start ==
    /\ pc = "start"
    /\ CASE variant \in {"python", "script"} ->
              /\ IF args_ok
                 THEN /\ pc' = "load"
                      /\ UNCHANGED <<stdout, stderr, status>>
                 ELSE Exit(stdout,
                           Append(stderr, TextLine("usage: ", "arguments")), 2)
              /\ UNCHANGED <<n, min_duration>>
         [] variant = "plugin" ->
              /\ IF ~args_ok
                 THEN Exit(Append(stdout, TextLine("Usage: ",
                               "python looper.py <audio_file>")), stderr, 1)
                 ELSE IF ~file_exists
                 THEN Exit(Append(stdout, TextLine("Error: ",
                               "File not found")), stderr, 1)
                 ELSE /\ pc' = "load"
                      /\ UNCHANGED <<stdout, stderr, status>>
              /\ UNCHANGED <<n, min_duration>>
         [] variant = "analysis" ->
              /\ n' = ResampledLen(file)
              /\ min_duration' =
                    Max((LoopPercent * get_duration(n', sr)) \div 100,
                        MinLoopSecondsAnalysis * sr)
              /\ pc' = "chroma"
              /\ UNCHANGED <<stdout, stderr, status>>
    /\ UNCHANGED <<inputs, n_frames, affinity, similarity_matrix,
                   min_loop_frames, frame1, frame2, beat_frames,
                   loop_start_frame_synced, loop_end_frame_synced,
                   loop_points, extension, steps>>

\* y, sr = librosa.load(path, sr=22050 [, duration=300])
Load ==
    /\ pc = "load"
    /\ \/ /\ file_exists
          /\ n' = IF variant = "python"
                  THEN Min(ResampledLen(file), LoadCapSeconds * sr)
                  ELSE ResampledLen(file)
          /\ pc' = "check_duration"
          /\ UNCHANGED outputs
       \/ /\ MainFail("load failed")
          /\ n' = n
    /\ UNCHANGED <<inputs, min_duration, n_frames, affinity,
                   similarity_matrix, min_loop_frames, frame1, frame2,
                   beat_frames, loop_start_frame_synced,
                   loop_end_frame_synced, extension, steps>>

\* total_duration = librosa.get_duration(y=y, sr=sr); the 20-second check;
\* min_loop_duration.
CheckDuration ==
    /\ pc = "check_duration"
    /\ LET total_duration == get_duration(n, sr)
       IN  IF total_duration < MinTrackSeconds * sr
           THEN /\ MainFail("Audio file too short")
                /\ min_duration' = min_duration
           ELSE /\ min_duration' =
                     IF variant = "python"
                     THEN Max(MinLoopSecondsPython * sr,
                              (LoopPercent * total_duration) \div 100)
                     ELSE (LoopPercent * total_duration) \div 100
                /\ pc' = "chroma"
                /\ UNCHANGED outputs
    /\ UNCHANGED <<inputs, n, n_frames, affinity, similarity_matrix,
                   min_loop_frames, frame1, frame2, beat_frames,
                   loop_start_frame_synced, loop_end_frame_synced,
                   extension, steps>>

\* ------------------------------------------------------- find_loop_points
\* chroma = librosa.feature.chroma_cqt(y=y, sr=sr): one frame per hop, plus
\* one.
Chroma ==
    /\ pc = "chroma"
    /\ steps' = steps \cup {"chroma"}
    /\ \/ /\ n_frames' = 1 + (n \div hop_length)
          /\ pc' = "recurrence"
          /\ UNCHANGED outputs
       \/ /\ FindFail("chroma_cqt failed")
          /\ n_frames' = n_frames
    /\ UNCHANGED <<inputs, n, min_duration, affinity, similarity_matrix,
                   min_loop_frames, frame1, frame2, beat_frames,
                   loop_start_frame_synced, loop_end_frame_synced,
                   extension>>

\* similarity_matrix = librosa.segment.recurrence_matrix(chroma,
\*                                                       mode='affinity')
Recurrence ==
    /\ pc = "recurrence"
    /\ steps' = steps \cup {"recurrence"}
    /\ \/ /\ affinity' \in [Cells(n_frames) -> Affinities]
          /\ similarity_matrix' = affinity'
          /\ pc' = "mask"
          /\ UNCHANGED outputs
       \/ /\ FindFail("recurrence_matrix failed")
          /\ UNCHANGED <<affinity, similarity_matrix>>
    /\ UNCHANGED <<inputs, n, min_duration, n_frames, min_loop_frames,
                   frame1, frame2, beat_frames, loop_start_frame_synced,
                   loop_end_frame_synced, extension>>

\* min_loop_frames = librosa.time_to_frames(min_duration, sr=sr), the main
\* diagonal and the band of min_loop_frames diagonals on either side.
Mask ==
    /\ pc = "mask"
    /\ steps' = steps \cup {"mask"}
    /\ min_loop_frames' = time_to_frames(min_duration)
    /\ similarity_matrix' =
          MaskMatrix(similarity_matrix, n_frames, min_loop_frames')
    /\ pc' = "argmax"
    /\ UNCHANGED <<inputs, n, min_duration, n_frames, affinity, frame1,
                   frame2, beat_frames, loop_start_frame_synced,
                   loop_end_frame_synced, outputs, extension>>

\* frame2_coords, frame1_coords = np.unravel_index(np.argmax(m), m.shape);
\* the pair ordered by min and max.
ArgMaxStep ==
    /\ pc = "argmax"
    /\ steps' = steps \cup {"argmax"}
    /\ LET coords == UnravelIndex(ArgMax(similarity_matrix, n_frames),
                                  n_frames)
           frame2_coords == coords[1]
           frame1_coords == coords[2]
       IN  /\ frame1' = Min(frame1_coords, frame2_coords)
           /\ frame2' = Max(frame1_coords, frame2_coords)
    /\ pc' = "beat_track"
    /\ UNCHANGED <<inputs, n, min_duration, n_frames, affinity,
                   similarity_matrix, min_loop_frames, beat_frames,
                   loop_start_frame_synced, loop_end_frame_synced,
                   outputs, extension>>

\* beat_frames = librosa.beat.beat_track(y=y, sr=sr, units='frames')[1]
BeatTrack ==
    /\ pc = "beat_track"
    /\ steps' = steps \cup {"beat_track"}
    /\ \/ /\ beat_frames' \in BeatGrids(n_frames)
          /\ pc' = "sync"
          /\ UNCHANGED outputs
       \/ /\ FindFail("beat_track failed")
          /\ beat_frames' = beat_frames
    /\ UNCHANGED <<inputs, n, min_duration, n_frames, affinity,
                   similarity_matrix, min_loop_frames, frame1, frame2,
                   loop_start_frame_synced, loop_end_frame_synced,
                   extension>>

\* Whether the variant compares the two synced frames (python only).
ChecksCollapse(v) == v = "python"

\* The two snaps; np.argmin raises ValueError on an empty grid.  The python
\* variant raises when both land on the same beat.
Sync ==
    /\ pc = "sync"
    /\ steps' = steps \cup {"sync"}
    /\ IF beat_frames = <<>>
       THEN /\ FindFail("attempt to get argmin of an empty sequence")
            /\ UNCHANGED <<loop_start_frame_synced, loop_end_frame_synced>>
       ELSE /\ loop_start_frame_synced' = Snap(beat_frames, frame1)
            /\ loop_end_frame_synced' = Snap(beat_frames, frame2)
            /\ IF /\ ChecksCollapse(variant)
                  /\ loop_start_frame_synced' = loop_end_frame_synced'
               THEN FindFail("Loop points are too close to sync to the beat.")
               ELSE /\ pc' = "to_time"
                    /\ UNCHANGED outputs
    /\ UNCHANGED <<inputs, n, min_duration, n_frames, affinity,
                   similarity_matrix, min_loop_frames, frame1, frame2,
                   beat_frames, extension>>

\* frames_to_time on both frames, and the return of the function.
ToTime ==
    /\ pc = "to_time"
    /\ steps' = steps \cup {"to_time"}
    /\ LET loop_start_time == frames_to_time(loop_start_frame_synced)
           loop_end_time == frames_to_time(loop_end_frame_synced)
       IN  CASE variant \in {"python", "script"} ->
                  /\ loop_points' = PointsDict(loop_start_time, loop_end_time)
                  /\ pc' = "report"
             [] variant = "plugin" ->
                  /\ loop_points' = PointsLine(loop_start_time, loop_end_time)
                  /\ pc' = "report"
             [] variant = "analysis" ->
                  /\ loop_points' = StatusDict("success", "", loop_start_time,
                                               loop_end_time)
                  /\ pc' = "done"
    /\ UNCHANGED <<inputs, locals, stdout, stderr, status, extension>>

\* What __main__ does with the value find_loop_points returned.
\*   python: prints start:end and exits 0 when loop_end > loop_start, raises
\*           ValueError otherwise
\*   plugin: print(result), and the script ends normally
\*   script: prints "Loop found!" and goes on to extend_track
Report ==
    /\ pc = "report"
    /\ CASE variant = "python" ->
              IF loop_points.loop_end > loop_points.loop_start
              THEN /\ Exit(Append(stdout,
                             PointsLine(loop_points.loop_start,
                                        loop_points.loop_end)), stderr, 0)
                   /\ loop_points' = loop_points
              ELSE MainFail("Could not find a confident loop.")
         [] variant = "plugin" ->
              /\ Exit(Append(stdout, loop_points), stderr, 0)
              /\ loop_points' = loop_points
         [] variant = "script" ->
              /\ stdout' = Append(stdout, TextLine("Loop found! ", ""))
              /\ pc' = "extend"
              /\ UNCHANGED <<loop_points, stderr, status>>
    /\ UNCHANGED <<inputs, locals, extension, steps>>

\* ------------------------------------------------------------ extend_track
\* Continues with <= in place of <.
ContinuesInclusive(audio, rate, seconds) ==
    get_duration(Len(audio), rate) <= seconds * sr

\* Extend with the segment put in front of the audio built so far.
ExtendFront(audio, loop_segment) == loop_segment \o audio

\* Whether the while loop of extend_track goes round once more:
\* current_duration < target_duration_seconds.
Continues(audio, rate, seconds) ==
    get_duration(Len(audio), rate) < seconds * sr

\* extended_audio.extend(loop_segment)
Extend(audio, loop_segment) == audio \o loop_segment

\* y, sr = librosa.load(file_path, sr=None); the two sample indices; the
\* prefix y[:loop_end_samples].
ExtendLoad ==
    /\ pc = "extend"
    /\ \/ /\ loop_start_samples' =
                time_to_samples(loop_points.loop_start, file.sr)
          /\ loop_end_samples' =
                time_to_samples(loop_points.loop_end, file.sr)
          /\ extended_audio' = SliceTo(file.y, loop_end_samples')
          /\ steps' = steps \cup {"extend"}
          /\ pc' = "extend_loop"
          /\ UNCHANGED outputs
       \/ /\ MainFail("load failed")
          /\ UNCHANGED <<loop_start_samples, loop_end_samples,
                         extended_audio, steps>>
    /\ UNCHANGED <<inputs, locals, iters>>

\* One iteration of: while current_duration < target_duration_seconds.
ExtendIter ==
    /\ pc = "extend_loop"
    /\ Continues(extended_audio, file.sr, target)
    /\ iters < MaxIters
    /\ extended_audio' =
          Extend(extended_audio,
                 Slice(file.y, loop_start_samples, loop_end_samples))
    /\ iters' = iters + 1
    /\ UNCHANGED <<inputs, pc, locals, outputs, loop_start_samples,
                   loop_end_samples, steps>>

\* The loop is left: sf.write(output_path, final_audio, sr); print("Done!").
ExtendWrite ==
    /\ pc = "extend_loop"
    /\ ~Continues(extended_audio, file.sr, target)
    /\ \/ /\ Exit(Append(stdout, TextLine("Done!", "")), stderr, 0)
          /\ loop_points' = loop_points
       \/ MainFail("write failed")
    /\ UNCHANGED <<inputs, locals, extension, steps>>

\* ---------------------------------------------------------- specifications
\* Runs of the four entry points.
Next ==
    \/ Start
    \/ Load
    \/ CheckDuration
    \/ Chroma
    \/ Recurrence
    \/ Mask
    \/ ArgMaxStep
    \/ BeatTrack
    \/ Sync
    \/ ToTime
    \/ Report
    \/ ExtendLoad
    \/ ExtendIter
    \/ ExtendWrite

Spec == Init /\ [][Next]_vars

\* The masking step on every matrix of up to MaxFrames frames and every band
\* width up to one more than that.
InitMask ==
    /\ variant = "python"
    /\ args_ok = TRUE
    /\ file_exists = TRUE
    /\ file = Ramp(0)
    /\ target = 0
    /\ pc = "mask"
    /\ n = -1
    /\ min_duration \in { m * hop_length + r :
                            m \in 0 .. MaxFrames + 1, r \in {0, 1} }
    /\ n_frames \in 1 .. MaxFrames
    /\ affinity \in [Cells(n_frames) -> Affinities]
    /\ similarity_matrix = affinity
    /\ min_loop_frames = -1
    /\ frame1 = -1
    /\ frame2 = -1
    /\ beat_frames = <<>>
    /\ loop_start_frame_synced = -1
    /\ loop_end_frame_synced = -1
    /\ loop_points = NoValue
    /\ stdout = <<>>
    /\ stderr = <<>>
    /\ status = NoStatus
    /\ loop_start_samples = -1
    /\ loop_end_samples = -1
    /\ extended_audio = <<>>
    /\ iters = 0
    /\ steps = {}

NextMask == Mask

SpecMask == InitMask /\ [][NextMask]_vars

\* Beat sync, time conversion and the report on every ordered candidate and
\* every grid of up to MaxBeats beats, increasing or not.
InitSync ==
    /\ variant \in Variants
    /\ args_ok = TRUE
    /\ file_exists = TRUE
    /\ file = Ramp(0)
    /\ target = 0
    /\ pc = "sync"
    /\ n = -1
    /\ min_duration = -1
    /\ n_frames = MaxFrames + 1
    /\ affinity = EmptyMatrix
    /\ similarity_matrix = EmptyMatrix
    /\ min_loop_frames = -1
    /\ frame1 \in 0 .. MaxFrames
    /\ frame2 \in frame1 .. MaxFrames
    /\ beat_frames \in SeqsUpTo(0 .. MaxFrames, MaxBeats)
    /\ loop_start_frame_synced = -1
    /\ loop_end_frame_synced = -1
    /\ loop_points = NoValue
    /\ stdout = <<>>
    /\ stderr = <<>>
    /\ status = NoStatus
    /\ loop_start_samples = -1
    /\ loop_end_samples = -1
    /\ extended_audio = <<>>
    /\ iters = 0
    /\ steps = {}

NextSync ==
    \/ Sync
    \/ ToTime
    \/ Report

SpecSync == InitSync /\ [][NextSync]_vars

\* Sample values of the buffers of the function-level runs of extend_track.
Samples == {0, 1}
\* Native sample rates of those buffers, Hz.
Rates == {1, 2}

\* extend_track on every buffer of up to MaxLen samples, every pair of loop
\* points at half-second steps up to MaxLen seconds, in either order and
\* inside the track or beyond its end, and every target of up to MaxTarget
\* seconds.
InitExtend ==
    /\ variant = "script"
    /\ args_ok = TRUE
    /\ file_exists = TRUE
    /\ file \in [sr : Rates, y : SeqsUpTo(Samples, MaxLen)]
    /\ target \in 0 .. MaxTarget
    /\ pc = "extend"
    /\ n = -1
    /\ min_duration = -1
    /\ n_frames = -1
    /\ affinity = EmptyMatrix
    /\ similarity_matrix = EmptyMatrix
    /\ min_loop_frames = -1
    /\ frame1 = -1
    /\ frame2 = -1
    /\ beat_frames = <<>>
    /\ loop_start_frame_synced = -1
    /\ loop_end_frame_synced = -1
    /\ \E s, e \in { h * (sr \div 2) : h \in 0 .. 2 * MaxLen } :
          loop_points = PointsDict(s, e)
    /\ stdout = <<>>
    /\ stderr = <<>>
    /\ status = NoStatus
    /\ loop_start_samples = -1
    /\ loop_end_samples = -1
    /\ extended_audio = <<>>
    /\ iters = 0
    /\ steps = {}

NextExtend ==
    \/ ExtendLoad
    \/ ExtendIter
    \/ ExtendWrite

SpecExtend == InitExtend /\ [][NextExtend]_vars

\* ------------------------------------------------------------ properties
\* The last line of a channel, NoValue when nothing was printed.
LastLine(channel) ==
    IF channel = <<>> THEN NoValue ELSE channel[Len(channel)]

\* A line of the form <loop_start_seconds>:<loop_end_seconds>.
IsPointsLine(l) ==
    l.kind = "str" /\ l.prefix = "" /\ l.text = "" /\ l.loop_start >= 0

\* The well-formed result: one start:end line on stdout, success status.
SuccessOutcome ==
    /\ Len(stdout) = 1
    /\ IsPointsLine(stdout[1])
    /\ stderr = <<>>
    /\ status = 0

\* The error outcome: an "Error: " message on stderr, failure status.
FailureOutcome ==
    /\ stdout = <<>>
    /\ Len(stderr) = 1
    /\ stderr[1].prefix = "Error: "
    /\ status \notin {0, NoStatus}

\* C1: a run of the python or the plugin command that got as far as
\* find_loop_points ends either with a single start:end line on stdout and
\* status 0 or with an "Error: " line on the error channel and a nonzero
\* status; a failure inside find_loop_points never ends with status 0.
C1_BinaryOutcome ==
    (pc = "done" /\ variant \in {"python", "plugin"} /\ "chroma" \in steps)
        => (SuccessOutcome \/ FailureOutcome)

\* The run has reported a loop as found.
ReportedSuccess ==
    \/ /\ variant \in {"python", "plugin"}
       /\ pc = "done"
       /\ status = 0
       /\ IsPointsLine(LastLine(stdout))
    \/ /\ variant = "analysis"
       /\ loop_points.status = "success"
    \/ /\ variant = "script"
       /\ \E k \in 1 .. Len(stdout) : stdout[k].prefix = "Loop found! "

\* C2: in every variant a loop reported as found has end_seconds >
\* start_seconds; two equal synced frames end the run in a failure.
C2_NoCollapsedSuccess ==
    ReportedSuccess => loop_points.loop_end > loop_points.loop_start

\* C3: once the track is found to be shorter than 20 seconds no analysis
\* step is executed and no loop result is produced, in every entry point.
C3_ShortTrackStops ==
    (n >= 0 /\ get_duration(n, sr) < MinTrackSeconds * sr)
        => (steps = {} /\ loop_points.loop_start = -1)

\* The run has ended in a failure.
Failed ==
    /\ pc = "done"
    /\ \/ LastLine(stderr).prefix = "Error: "
       \/ LastLine(stdout).prefix \in {"Error: ", "An error occurred: "}
       \/ loop_points.status = "failed"

\* C4: when the largest value of the masked matrix is 0 the search ends the
\* run in a failure, returns no frame pair and never hands cell (0,0) to
\* beat synchronization.
C4_NoLoopFound ==
    ("argmax" \in steps /\ MatrixMax(similarity_matrix, n_frames) = 0)
        => (Failed /\ "sync" \notin steps /\ frame1 = -1 /\ frame2 = -1)

\* C9: every iteration of the while loop of extend_track that is taken
\* makes the output strictly longer, so that the loop ends.
C9_IterationGrows ==
    [][ExtendIter => Len(extended_audio') > Len(extended_audio)]_vars

\* The masking step has run.
Masked == "mask" \in steps

\* C5, as claimed: after masking every cell with |i-j| < min_loop_frames is
\* 0 and every other cell has its value from before the masking, for every
\* band width including 0.
C5_BandOnly ==
    Masked =>
        \A c \in Cells(n_frames) :
            similarity_matrix[c] =
                IF Abs(c[1] - c[2]) < min_loop_frames THEN 0 ELSE affinity[c]

\* C5, amended: after masking every cell of the main diagonal and every cell
\* with |i-j| < min_loop_frames is 0, and every other cell has its value
\* from before the masking.
C5_DiagonalAndBand ==
    Masked =>
        \A c \in Cells(n_frames) :
            similarity_matrix[c] =
                IF c[1] = c[2] \/ Abs(c[1] - c[2]) < min_loop_frames
                THEN 0
                ELSE affinity[c]

\* A band of two or more diagonals inside the matrix has erased a score next
\* to the main diagonal and left one outside the band.
C5_Witness ==
    /\ Masked
    /\ min_loop_frames >= 2
    /\ min_loop_frames < n_frames
    /\ \E c \in Cells(n_frames) :
          /\ c[1] # c[2]
          /\ Abs(c[1] - c[2]) < min_loop_frames
          /\ affinity[c] > 0
          /\ similarity_matrix[c] = 0
    /\ \E c \in Cells(n_frames) :
          /\ Abs(c[1] - c[2]) >= min_loop_frames
          /\ similarity_matrix[c] > 0

\* The while loop of extend_track has been left: extended_audio is the
\* track that is written.
LoopLeft ==
    /\ "extend" \in steps
    /\ pc \in {"extend_loop", "done"}
    /\ Len(extended_audio) >= target * file.sr

\* Number of samples of the range [loop_start, loop_end) of the buffer.
SegmentLen ==
    Max(0, Min(loop_end_samples, Len(file.y)) - loop_start_samples)

\* C6: what extend_track has built is at every moment the prefix followed
\* by iters whole copies of [loop_start, loop_end), none of them appended
\* with the target already reached; the track it returns lasts at least the
\* target, exceeds it by less than one loop length when a copy was
\* appended, and is the prefix alone when the target is no longer than the
\* prefix.
C6_WholeCopies ==
    "extend" \in steps =>
        LET le == Min(loop_end_samples, Len(file.y))
            L == SegmentLen
            want == target * file.sr
        IN  /\ Len(extended_audio) = le + iters * L
            /\ \A k \in 0 .. iters - 1 : \A q \in 1 .. L :
                  extended_audio[le + k * L + q] =
                      file.y[loop_start_samples + q]
            /\ \A k \in 0 .. iters - 1 : le + k * L < want
            /\ want <= le => iters = 0
            /\ LoopLeft =>
                  /\ Len(extended_audio) >= want
                  /\ iters >= 1 => Len(extended_audio) - L < want

\* Two copies were appended and the result overshoots the target.
C6_Witness ==
    /\ LoopLeft
    /\ pc = "done"
    /\ status = 0
    /\ iters >= 2
    /\ SegmentLen >= 2
    /\ Len(extended_audio) > target * file.sr

\* C7: the first loop_end_samples samples of the output of extend_track are
\* the first loop_end_samples samples of the input, position by position,
\* at every point of the loop and after it.  A buffer shorter than
\* loop_end_samples has only Len(file.y) such samples.
C7_PrefixKept ==
    "extend" \in steps =>
        LET first == Min(loop_end_samples, Len(file.y))
        IN  /\ Len(extended_audio) >= first
            /\ \A p \in 1 .. first : extended_audio[p] = file.y[p]

\* A non-empty prefix, with copies of a segment that differs from the
\* start of the prefix appended to it.
C7_Witness ==
    /\ "extend" \in steps
    /\ pc = "done"
    /\ status = 0
    /\ iters >= 1
    /\ loop_end_samples >= 2
    /\ loop_start_samples >= 1
    /\ file.y[1] # file.y[loop_start_samples + 1]
    /\ Len(extended_audio) > loop_end_samples

\* Beat sync has produced its two frames.
Synced == "sync" \in steps /\ beat_frames # <<>>

\* g is the entry of the grid that beat sync must give for the frame f: at
\* the least distance from f, and the lowest-indexed entry at that distance.
NearestLowest(g, f) ==
    \E k \in 1 .. Len(beat_frames) :
        /\ beat_frames[k] = g
        /\ \A j \in 1 .. Len(beat_frames) :
              Abs(g - f) <= Abs(beat_frames[j] - f)
        /\ \A j \in 1 .. k - 1 :
              Abs(beat_frames[j] - f) # Abs(g - f)

\* C8: on a non-empty grid each synced frame is the grid entry nearest to
\* its own candidate frame, the lower-indexed one among equidistant entries.
C8_SnapsToNearestBeat ==
    Synced =>
        /\ NearestLowest(loop_start_frame_synced, frame1)
        /\ NearestLowest(loop_end_frame_synced, frame2)

\* The start frame lies midway between two beats and the two frames went to
\* different beats.
C8_Witness ==
    /\ Synced
    /\ Len(beat_frames) >= 2
    /\ \E j, k \in 1 .. Len(beat_frames) :
          /\ j < k
          /\ beat_frames[j] # beat_frames[k]
          /\ Abs(beat_frames[j] - frame1) = Abs(beat_frames[k] - frame1)
          /\ loop_start_frame_synced = beat_frames[j]
    /\ loop_start_frame_synced # loop_end_frame_synced

\* The grid is strictly increasing.
Increasing(grid) ==
    \A k \in 1 .. Len(grid) - 1 : grid[k] < grid[k + 1]

\* C10: on a strictly increasing grid an ordered candidate stays ordered
\* through beat sync and time conversion, so that the python entry point
\* never reports "Could not find a confident loop".
C10_OrderKept ==
    (Synced /\ Increasing(beat_frames) /\ frame1 <= frame2) =>
        /\ loop_start_frame_synced <= loop_end_frame_synced
        /\ "to_time" \in steps =>
              loop_points.loop_start <= loop_points.loop_end
        /\ variant = "python" =>
              LastLine(stderr).text # "Could not find a confident loop."

\* The python entry point has reported a loop found on an increasing grid of
\* two beats, neither of which is a candidate frame.
C10_Witness ==
    /\ Synced
    /\ Increasing(beat_frames)
    /\ Len(beat_frames) >= 2
    /\ variant = "python"
    /\ pc = "done"
    /\ status = 0
    /\ frame1 < frame2
    /\ frame1 # loop_start_frame_synced
    /\ frame2 # loop_end_frame_synced
    /\ loop_points.loop_start < loop_points.loop_end

====
